---- MODULE Spec2Model ----
(***************************************************************************)
(* Model of implementors/core/ops/index/trait.Index.js: a generated        *)
(* script that builds a mapping from crate name to implementor records and *)
(* hands it to window.register_implementors when that global is truthy, or *)
(* stores it in window.pending_implementors otherwise.                     *)
(*                                                                         *)
(* A JavaScript object with string keys keeps its keys in insertion order, *)
(* so the mapping is a sequence of [key, value] entries.  Objects live in  *)
(* a heap and are referred to by identity, so that two loads of the script *)
(* build two distinct objects of equal content.                            *)
(***************************************************************************)
EXTENDS Integers, Sequences, FiniteSets, TLC

\* how many times the page loads the script
MaxLoads == 3

VARIABLES
  hook,          \* window.register_implementors
  pending,       \* window.pending_implementors
  calls,         \* argument lists of the calls made to the hook, in order
  heap,          \* heap[id]: the mapping object created by load number id
  implementors,  \* the local variable of the running load (0: not in scope)
  pc,            \* line of the script about to run (0: no script running)
  written,       \* names of the properties of window the script has assigned
  log            \* one entry per finished load: what line 11 saw and did

vars == <<hook, pending, calls, heap, implementors, pc, written, log>>

\* line 2: implementors["bytes"] = [...]
Records_bytes ==
  <<
     [text |-> "impl <a class=\"trait\" href=\"https://doc.rust-lang.org/nightly/core/ops/index/trait.Index.html\" title=\"trait core::ops::index::Index\">Index</a>&lt;<a class=\"struct\" href=\"https://doc.rust-lang.org/nightly/core/ops/range/struct.Range.html\" title=\"struct core::ops::range::Range\">Range</a>&lt;<a class=\"primitive\" href=\"https://doc.rust-lang.org/nightly/std/primitive.usize.html\">usize</a>&gt;&gt; for <a class=\"struct\" href=\"bytes/buf/struct.UninitSlice.html\" title=\"struct bytes::buf::UninitSlice\">UninitSlice</a>",
      synthetic |-> FALSE,
      types |-> <<"bytes::buf::uninit_slice::UninitSlice">>],
     [text |-> "impl <a class=\"trait\" href=\"https://doc.rust-lang.org/nightly/core/ops/index/trait.Index.html\" title=\"trait core::ops::index::Index\">Index</a>&lt;<a class=\"struct\" href=\"https://doc.rust-lang.org/nightly/core/ops/range/struct.RangeFrom.html\" title=\"struct core::ops::range::RangeFrom\">RangeFrom</a>&lt;<a class=\"primitive\" href=\"https://doc.rust-lang.org/nightly/std/primitive.usize.html\">usize</a>&gt;&gt; for <a class=\"struct\" href=\"bytes/buf/struct.UninitSlice.html\" title=\"struct bytes::buf::UninitSlice\">UninitSlice</a>",
      synthetic |-> FALSE,
      types |-> <<"bytes::buf::uninit_slice::UninitSlice">>],
     [text |-> "impl <a class=\"trait\" href=\"https://doc.rust-lang.org/nightly/core/ops/index/trait.Index.html\" title=\"trait core::ops::index::Index\">Index</a>&lt;<a class=\"struct\" href=\"https://doc.rust-lang.org/nightly/core/ops/range/struct.RangeFull.html\" title=\"struct core::ops::range::RangeFull\">RangeFull</a>&gt; for <a class=\"struct\" href=\"bytes/buf/struct.UninitSlice.html\" title=\"struct bytes::buf::UninitSlice\">UninitSlice</a>",
      synthetic |-> FALSE,
      types |-> <<"bytes::buf::uninit_slice::UninitSlice">>],
     [text |-> "impl <a class=\"trait\" href=\"https://doc.rust-lang.org/nightly/core/ops/index/trait.Index.html\" title=\"trait core::ops::index::Index\">Index</a>&lt;<a class=\"struct\" href=\"https://doc.rust-lang.org/nightly/core/ops/range/struct.RangeInclusive.html\" title=\"struct core::ops::range::RangeInclusive\">RangeInclusive</a>&lt;<a class=\"primitive\" href=\"https://doc.rust-lang.org/nightly/std/primitive.usize.html\">usize</a>&gt;&gt; for <a class=\"struct\" href=\"bytes/buf/struct.UninitSlice.html\" title=\"struct bytes::buf::UninitSlice\">UninitSlice</a>",
      synthetic |-> FALSE,
      types |-> <<"bytes::buf::uninit_slice::UninitSlice">>],
     [text |-> "impl <a class=\"trait\" href=\"https://doc.rust-lang.org/nightly/core/ops/index/trait.Index.html\" title=\"trait core::ops::index::Index\">Index</a>&lt;<a class=\"struct\" href=\"https://doc.rust-lang.org/nightly/core/ops/range/struct.RangeTo.html\" title=\"struct core::ops::range::RangeTo\">RangeTo</a>&lt;<a class=\"primitive\" href=\"https://doc.rust-lang.org/nightly/std/primitive.usize.html\">usize</a>&gt;&gt; for <a class=\"struct\" href=\"bytes/buf/struct.UninitSlice.html\" title=\"struct bytes::buf::UninitSlice\">UninitSlice</a>",
      synthetic |-> FALSE,
      types |-> <<"bytes::buf::uninit_slice::UninitSlice">>],
     [text |-> "impl <a class=\"trait\" href=\"https://doc.rust-lang.org/nightly/core/ops/index/trait.Index.html\" title=\"trait core::ops::index::Index\">Index</a>&lt;<a class=\"struct\" href=\"https://doc.rust-lang.org/nightly/core/ops/range/struct.RangeToInclusive.html\" title=\"struct core::ops::range::RangeToInclusive\">RangeToInclusive</a>&lt;<a class=\"primitive\" href=\"https://doc.rust-lang.org/nightly/std/primitive.usize.html\">usize</a>&gt;&gt; for <a class=\"struct\" href=\"bytes/buf/struct.UninitSlice.html\" title=\"struct bytes::buf::UninitSlice\">UninitSlice</a>",
      synthetic |-> FALSE,
      types |-> <<"bytes::buf::uninit_slice::UninitSlice">>]
  >>

\* line 3: implementors["hashbrown"] = [...]
Records_hashbrown ==
  <<
     [text |-> "impl&lt;K, Q:&nbsp;?<a class=\"trait\" href=\"https://doc.rust-lang.org/nightly/core/marker/trait.Sized.html\" title=\"trait core::marker::Sized\">Sized</a>, V, S&gt; <a class=\"trait\" href=\"https://doc.rust-lang.org/nightly/core/ops/index/trait.Index.html\" title=\"trait core::ops::index::Index\">Index</a>&lt;&amp;'_ Q&gt; for <a class=\"struct\" href=\"hashbrown/hash_map/struct.HashMap.html\" title=\"struct hashbrown::hash_map::HashMap\">HashMap</a>&lt;K, V, S&gt; <span class=\"where fmt-newline\">where<br>&nbsp;&nbsp;&nbsp;&nbsp;K: <a class=\"trait\" href=\"https://doc.rust-lang.org/nightly/core/cmp/trait.Eq.html\" title=\"trait core::cmp::Eq\">Eq</a> + <a class=\"trait\" href=\"https://doc.rust-lang.org/nightly/core/hash/trait.Hash.html\" title=\"trait core::hash::Hash\">Hash</a> + <a class=\"trait\" href=\"https://doc.rust-lang.org/nightly/core/borrow/trait.Borrow.html\" title=\"trait core::borrow::Borrow\">Borrow</a>&lt;Q&gt;,<br>&nbsp;&nbsp;&nbsp;&nbsp;Q: <a class=\"trait\" href=\"https://doc.rust-lang.org/nightly/core/cmp/trait.Eq.html\" title=\"trait core::cmp::Eq\">Eq</a> + <a class=\"trait\" href=\"https://doc.rust-lang.org/nightly/core/hash/trait.Hash.html\" title=\"trait core::hash::Hash\">Hash</a>,<br>&nbsp;&nbsp;&nbsp;&nbsp;S: <a class=\"trait\" href=\"https://doc.rust-lang.org/nightly/core/hash/trait.BuildHasher.html\" title=\"trait core::hash::BuildHasher\">BuildHasher</a>,&nbsp;</span>",
      synthetic |-> FALSE,
      types |-> <<"hashbrown::map::HashMap">>]
  >>

\* line 4: implementors["http"] = [...]
Records_http ==
  <<
     [text |-> "impl&lt;'a, K, T&gt; <a class=\"trait\" href=\"https://doc.rust-lang.org/nightly/core/ops/index/trait.Index.html\" title=\"trait core::ops::index::Index\">Index</a>&lt;K&gt; for <a class=\"struct\" href=\"http/header/struct.HeaderMap.html\" title=\"struct http::header::HeaderMap\">HeaderMap</a>&lt;T&gt; <span class=\"where fmt-newline\">where<br>&nbsp;&nbsp;&nbsp;&nbsp;K: <a class=\"trait\" href=\"http/header/trait.AsHeaderName.html\" title=\"trait http::header::AsHeaderName\">AsHeaderName</a>,&nbsp;</span>",
      synthetic |-> FALSE,
      types |-> <<"http::header::map::HeaderMap">>]
  >>

\* line 5: implementors["indexmap"] = [...]
Records_indexmap ==
  <<
     [text |-> "impl&lt;K, V, Q:&nbsp;?<a class=\"trait\" href=\"https://doc.rust-lang.org/nightly/core/marker/trait.Sized.html\" title=\"trait core::marker::Sized\">Sized</a>, S&gt; <a class=\"trait\" href=\"https://doc.rust-lang.org/nightly/core/ops/index/trait.Index.html\" title=\"trait core::ops::index::Index\">Index</a>&lt;<a class=\"primitive\" href=\"https://doc.rust-lang.org/nightly/std/primitive.reference.html\">&amp;'_ </a>Q&gt; for <a class=\"struct\" href=\"indexmap/map/struct.IndexMap.html\" title=\"struct indexmap::map::IndexMap\">IndexMap</a>&lt;K, V, S&gt; <span class=\"where fmt-newline\">where<br>&nbsp;&nbsp;&nbsp;&nbsp;Q: <a class=\"trait\" href=\"https://doc.rust-lang.org/nightly/core/hash/trait.Hash.html\" title=\"trait core::hash::Hash\">Hash</a> + <a class=\"trait\" href=\"indexmap/trait.Equivalent.html\" title=\"trait indexmap::Equivalent\">Equivalent</a>&lt;K&gt;,<br>&nbsp;&nbsp;&nbsp;&nbsp;K: <a class=\"trait\" href=\"https://doc.rust-lang.org/nightly/core/hash/trait.Hash.html\" title=\"trait core::hash::Hash\">Hash</a> + <a class=\"trait\" href=\"https://doc.rust-lang.org/nightly/core/cmp/trait.Eq.html\" title=\"trait core::cmp::Eq\">Eq</a>,<br>&nbsp;&nbsp;&nbsp;&nbsp;S: <a class=\"trait\" href=\"https://doc.rust-lang.org/nightly/core/hash/trait.BuildHasher.html\" title=\"trait core::hash::BuildHasher\">BuildHasher</a>,&nbsp;</span>",
      synthetic |-> FALSE,
      types |-> <<"indexmap::map::IndexMap">>],
     [text |-> "impl&lt;K, V, S&gt; <a class=\"trait\" href=\"https://doc.rust-lang.org/nightly/core/ops/index/trait.Index.html\" title=\"trait core::ops::index::Index\">Index</a>&lt;<a class=\"primitive\" href=\"https://doc.rust-lang.org/nightly/std/primitive.usize.html\">usize</a>&gt; for <a class=\"struct\" href=\"indexmap/map/struct.IndexMap.html\" title=\"struct indexmap::map::IndexMap\">IndexMap</a>&lt;K, V, S&gt;",
      synthetic |-> FALSE,
      types |-> <<"indexmap::map::IndexMap">>],
     [text |-> "impl&lt;T, S&gt; <a class=\"trait\" href=\"https://doc.rust-lang.org/nightly/core/ops/index/trait.Index.html\" title=\"trait core::ops::index::Index\">Index</a>&lt;<a class=\"primitive\" href=\"https://doc.rust-lang.org/nightly/std/primitive.usize.html\">usize</a>&gt; for <a class=\"struct\" href=\"indexmap/set/struct.IndexSet.html\" title=\"struct indexmap::set::IndexSet\">IndexSet</a>&lt;T, S&gt;",
      synthetic |-> FALSE,
      types |-> <<"indexmap::set::IndexSet">>]
  >>

\* line 6: implementors["openssl"] = [...]
Records_openssl ==
  <<
     [text |-> "impl&lt;T:&nbsp;<a class=\"trait\" href=\"openssl/stack/trait.Stackable.html\" title=\"trait openssl::stack::Stackable\">Stackable</a>&gt; <a class=\"trait\" href=\"https://doc.rust-lang.org/nightly/core/ops/index/trait.Index.html\" title=\"trait core::ops::index::Index\">Index</a>&lt;<a class=\"primitive\" href=\"https://doc.rust-lang.org/nightly/std/primitive.usize.html\">usize</a>&gt; for <a class=\"struct\" href=\"openssl/stack/struct.StackRef.html\" title=\"struct openssl::stack::StackRef\">StackRef</a>&lt;T&gt;",
      synthetic |-> FALSE,
      types |-> <<"openssl::stack::StackRef">>]
  >>

\* line 7: implementors["slab"] = [...]
Records_slab ==
  <<
     [text |-> "impl&lt;T&gt; <a class=\"trait\" href=\"https://doc.rust-lang.org/nightly/core/ops/index/trait.Index.html\" title=\"trait core::ops::index::Index\">Index</a>&lt;<a class=\"primitive\" href=\"https://doc.rust-lang.org/nightly/std/primitive.usize.html\">usize</a>&gt; for <a class=\"struct\" href=\"slab/struct.Slab.html\" title=\"struct slab::Slab\">Slab</a>&lt;T&gt;",
      synthetic |-> FALSE,
      types |-> <<"slab::Slab">>]
  >>

\* line 8: implementors["syn"] = [...]
Records_syn ==
  <<
     [text |-> "impl&lt;T, P&gt; <a class=\"trait\" href=\"https://doc.rust-lang.org/nightly/core/ops/index/trait.Index.html\" title=\"trait core::ops::index::Index\">Index</a>&lt;<a class=\"primitive\" href=\"https://doc.rust-lang.org/nightly/std/primitive.usize.html\">usize</a>&gt; for <a class=\"struct\" href=\"syn/punctuated/struct.Punctuated.html\" title=\"struct syn::punctuated::Punctuated\">Punctuated</a>&lt;T, P&gt;",
      synthetic |-> FALSE,
      types |-> <<"syn::punctuated::Punctuated">>]
  >>

\* line 9: implementors["tinyvec"] = [...]
Records_tinyvec ==
  <<
     [text |-> "impl&lt;A:&nbsp;<a class=\"trait\" href=\"tinyvec/trait.Array.html\" title=\"trait tinyvec::Array\">Array</a>, I:&nbsp;<a class=\"trait\" href=\"https://doc.rust-lang.org/nightly/core/slice/index/trait.SliceIndex.html\" title=\"trait core::slice::index::SliceIndex\">SliceIndex</a>&lt;[A::<a class=\"type\" href=\"tinyvec/trait.Array.html#associatedtype.Item\" title=\"type tinyvec::Array::Item\">Item</a>]&gt;&gt; <a class=\"trait\" href=\"https://doc.rust-lang.org/nightly/core/ops/index/trait.Index.html\" title=\"trait core::ops::index::Index\">Index</a>&lt;I&gt; for <a class=\"struct\" href=\"tinyvec/struct.ArrayVec.html\" title=\"struct tinyvec::ArrayVec\">ArrayVec</a>&lt;A&gt;",
      synthetic |-> FALSE,
      types |-> <<"tinyvec::arrayvec::ArrayVec">>],
     [text |-> "impl&lt;'s, T, I&gt; <a class=\"trait\" href=\"https://doc.rust-lang.org/nightly/core/ops/index/trait.Index.html\" title=\"trait core::ops::index::Index\">Index</a>&lt;I&gt; for <a class=\"struct\" href=\"tinyvec/struct.SliceVec.html\" title=\"struct tinyvec::SliceVec\">SliceVec</a>&lt;'s, T&gt; <span class=\"where fmt-newline\">where<br>&nbsp;&nbsp;&nbsp;&nbsp;I: <a class=\"trait\" href=\"https://doc.rust-lang.org/nightly/core/slice/index/trait.SliceIndex.html\" title=\"trait core::slice::index::SliceIndex\">SliceIndex</a>&lt;[T]&gt;,&nbsp;</span>",
      synthetic |-> FALSE,
      types |-> <<"tinyvec::slicevec::SliceVec">>],
     [text |-> "impl&lt;A:&nbsp;<a class=\"trait\" href=\"tinyvec/trait.Array.html\" title=\"trait tinyvec::Array\">Array</a>, I:&nbsp;<a class=\"trait\" href=\"https://doc.rust-lang.org/nightly/core/slice/index/trait.SliceIndex.html\" title=\"trait core::slice::index::SliceIndex\">SliceIndex</a>&lt;[A::<a class=\"type\" href=\"tinyvec/trait.Array.html#associatedtype.Item\" title=\"type tinyvec::Array::Item\">Item</a>]&gt;&gt; <a class=\"trait\" href=\"https://doc.rust-lang.org/nightly/core/ops/index/trait.Index.html\" title=\"trait core::ops::index::Index\">Index</a>&lt;I&gt; for <a class=\"enum\" href=\"tinyvec/enum.TinyVec.html\" title=\"enum tinyvec::TinyVec\">TinyVec</a>&lt;A&gt;",
      synthetic |-> FALSE,
      types |-> <<"tinyvec::tinyvec::TinyVec">>]
  >>

\* line 10: implementors["url"] = [...]
Records_url ==
  <<
     [text |-> "impl <a class=\"trait\" href=\"https://doc.rust-lang.org/nightly/core/ops/index/trait.Index.html\" title=\"trait core::ops::index::Index\">Index</a>&lt;<a class=\"struct\" href=\"https://doc.rust-lang.org/nightly/core/ops/range/struct.RangeFull.html\" title=\"struct core::ops::range::RangeFull\">RangeFull</a>&gt; for <a class=\"struct\" href=\"url/struct.Url.html\" title=\"struct url::Url\">Url</a>",
      synthetic |-> FALSE,
      types |-> <<"url::Url">>],
     [text |-> "impl <a class=\"trait\" href=\"https://doc.rust-lang.org/nightly/core/ops/index/trait.Index.html\" title=\"trait core::ops::index::Index\">Index</a>&lt;<a class=\"struct\" href=\"https://doc.rust-lang.org/nightly/core/ops/range/struct.RangeFrom.html\" title=\"struct core::ops::range::RangeFrom\">RangeFrom</a>&lt;<a class=\"enum\" href=\"url/enum.Position.html\" title=\"enum url::Position\">Position</a>&gt;&gt; for <a class=\"struct\" href=\"url/struct.Url.html\" title=\"struct url::Url\">Url</a>",
      synthetic |-> FALSE,
      types |-> <<"url::Url">>],
     [text |-> "impl <a class=\"trait\" href=\"https://doc.rust-lang.org/nightly/core/ops/index/trait.Index.html\" title=\"trait core::ops::index::Index\">Index</a>&lt;<a class=\"struct\" href=\"https://doc.rust-lang.org/nightly/core/ops/range/struct.RangeTo.html\" title=\"struct core::ops::range::RangeTo\">RangeTo</a>&lt;<a class=\"enum\" href=\"url/enum.Position.html\" title=\"enum url::Position\">Position</a>&gt;&gt; for <a class=\"struct\" href=\"url/struct.Url.html\" title=\"struct url::Url\">Url</a>",
      synthetic |-> FALSE,
      types |-> <<"url::Url">>],
     [text |-> "impl <a class=\"trait\" href=\"https://doc.rust-lang.org/nightly/core/ops/index/trait.Index.html\" title=\"trait core::ops::index::Index\">Index</a>&lt;<a class=\"struct\" href=\"https://doc.rust-lang.org/nightly/core/ops/range/struct.Range.html\" title=\"struct core::ops::range::Range\">Range</a>&lt;<a class=\"enum\" href=\"url/enum.Position.html\" title=\"enum url::Position\">Position</a>&gt;&gt; for <a class=\"struct\" href=\"url/struct.Url.html\" title=\"struct url::Url\">Url</a>",
      synthetic |-> FALSE,
      types |-> <<"url::Url">>]
  >>

\* lines 2-10 in file order: the key each statement assigns and the array literal it assigns
Assignments ==
  <<
     [line |-> 2, key |-> "bytes", value |-> Records_bytes],
     [line |-> 3, key |-> "hashbrown", value |-> Records_hashbrown],
     [line |-> 4, key |-> "http", value |-> Records_http],
     [line |-> 5, key |-> "indexmap", value |-> Records_indexmap],
     [line |-> 6, key |-> "openssl", value |-> Records_openssl],
     [line |-> 7, key |-> "slab", value |-> Records_slab],
     [line |-> 8, key |-> "syn", value |-> Records_syn],
     [line |-> 9, key |-> "tinyvec", value |-> Records_tinyvec],
     [line |-> 10, key |-> "url", value |-> Records_url]
  >>
\* ------------------------------------------------------------------------
\* values of the two globals

\* what window.register_implementors can hold when the script runs
HookValues == {"undefined", "falsy", "function", "throwing_function", "object"}

\* the test of `if (window.register_implementors)`
Truthy(h) == h \notin {"undefined", "falsy"}

\* whether the call expression window.register_implementors(...) can invoke h
Callable(h) == h \in {"function", "throwing_function"}

\* whether the invoked hook itself throws
Throws(h) == h = "throwing_function"

Undefined == [kind |-> "undefined"]
Foreign == [kind |-> "foreign"]
Ref(id) == [kind |-> "object", id |-> id]

\* ------------------------------------------------------------------------
\* the mapping object

EmptyObject == << >>

ObjHas(m, k) == \E i \in DOMAIN m : m[i].key = k

ObjSet(m, k, v) ==
  IF ObjHas(m, k)
    THEN [i \in DOMAIN m |-> IF m[i].key = k THEN [key |-> k, value |-> v] ELSE m[i]]
    ELSE Append(m, [key |-> k, value |-> v])

ObjKeys(m) == [i \in DOMAIN m |-> m[i].key]

ObjGet(m, k) == m[CHOOSE i \in DOMAIN m : m[i].key = k].value

\* ------------------------------------------------------------------------
\* the script, line by line

FirstLine == 1
LastLine == 11

\* variant: the registration branch placed before the last assignment
NextLine_RegisterEarly(n) ==
  IF n = 9 THEN LastLine ELSE IF n = LastLine THEN 10 ELSE IF n = 10 THEN 0 ELSE n + 1

\* statements run in file order; after the last one the script is over
NextLine(n) == IF n = LastLine THEN 0 ELSE n + 1

\* variant: the last statement repeats the first crate
StatementAt_Repeated(n) == Assignments[IF n = 10 THEN 1 ELSE n - 1]

\* variant: records generated with the two documented fields only
StatementAt_TwoFields(n) ==
  [line |-> n, key |-> Assignments[n - 1].key,
   value |-> [i \in DOMAIN Assignments[n - 1].value |->
                [text |-> Assignments[n - 1].value[i].text,
                 types |-> Assignments[n - 1].value[i].types]]]

\* variant: records generated with an empty type-path list
StatementAt_NoPaths(n) ==
  [line |-> n, key |-> Assignments[n - 1].key,
   value |-> [i \in DOMAIN Assignments[n - 1].value |->
                [Assignments[n - 1].value[i] EXCEPT !.types = << >>]]]

\* the statement on line n, for n in 2..10
StatementAt(n) == Assignments[n - 1]

\* variant: the declaration without `var`, which assigns window.implementors
DeclaredGlobals_NoVar == {"implementors"}

\* `var implementors` declares a local: line 1 assigns no property of window
DeclaredGlobals == {}

\* variant: the mapping is both passed to the hook and stored
RegistrationBranch_Both(h, p, c, m) ==
  IF Truthy(h)
    THEN IF Callable(h)
           THEN [pending |-> m, calls |-> Append(c, <<m>>), raised |-> Throws(h),
                 wrote |-> {"pending_implementors"}]
           ELSE [pending |-> p, calls |-> c, raised |-> TRUE, wrote |-> {}]
    ELSE [pending |-> m, calls |-> c, raised |-> FALSE, wrote |-> {"pending_implementors"}]

\* variant: a `typeof ... === "function"` test in place of the truthiness test
RegistrationBranch_TypeofGuard(h, p, c, m) ==
  IF Callable(h)
    THEN [pending |-> p, calls |-> Append(c, <<m>>), raised |-> Throws(h), wrote |-> {}]
    ELSE [pending |-> m, calls |-> c, raised |-> FALSE, wrote |-> {"pending_implementors"}]

\* variant: the callback route also flushes a mapping stashed by an earlier load
RegistrationBranch_Flush(h, p, c, m) ==
  IF Truthy(h)
    THEN IF Callable(h)
           THEN IF p.kind = "object"
                  THEN [pending |-> Undefined, calls |-> Append(Append(c, <<p>>), <<m>>),
                        raised |-> Throws(h), wrote |-> {"pending_implementors"}]
                  ELSE [pending |-> p, calls |-> Append(c, <<m>>), raised |-> Throws(h),
                        wrote |-> {}]
           ELSE [pending |-> p, calls |-> c, raised |-> TRUE, wrote |-> {}]
    ELSE [pending |-> m, calls |-> c, raised |-> FALSE, wrote |-> {"pending_implementors"}]

\* variant: the fallback route keeps a mapping that is already stashed
RegistrationBranch_KeepFirst(h, p, c, m) ==
  IF Truthy(h)
    THEN IF Callable(h)
           THEN [pending |-> p, calls |-> Append(c, <<m>>), raised |-> Throws(h), wrote |-> {}]
           ELSE [pending |-> p, calls |-> c, raised |-> TRUE, wrote |-> {}]
    ELSE [pending |-> IF p.kind = "object" THEN p ELSE m, calls |-> c, raised |-> FALSE,
          wrote |-> {"pending_implementors"}]

\* variant: the hook is used only while nothing is stashed
RegistrationBranch_StashFirst(h, p, c, m) ==
  IF Truthy(h) /\ p = Undefined
    THEN IF Callable(h)
           THEN [pending |-> p, calls |-> Append(c, <<m>>), raised |-> Throws(h), wrote |-> {}]
           ELSE [pending |-> p, calls |-> c, raised |-> TRUE, wrote |-> {}]
    ELSE [pending |-> m, calls |-> c, raised |-> FALSE, wrote |-> {"pending_implementors"}]

\* line 11: if (window.register_implementors) {window.register_implementors(implementors);}
\*          else {window.pending_implementors = implementors;}
\* h, p, c: the hook, the pending slot and the call log before the line;
\* m: the reference held by the local variable
RegistrationBranch(h, p, c, m) ==
  IF Truthy(h)
    THEN IF Callable(h)
           THEN [pending |-> p, calls |-> Append(c, <<m>>), raised |-> Throws(h), wrote |-> {}]
           ELSE [pending |-> p, calls |-> c, raised |-> TRUE, wrote |-> {}]
    ELSE [pending |-> m, calls |-> c, raised |-> FALSE, wrote |-> {"pending_implementors"}]

Scope(n) == IF NextLine(n) = 0 THEN 0 ELSE implementors

Init ==
  /\ hook \in HookValues
  /\ pending \in {Undefined, Foreign}
  /\ calls = << >>
  /\ heap = << >>
  /\ implementors = 0
  /\ pc = 0
  /\ written = {}
  /\ log = << >>

\* line 1: (function() {var implementors = {};
Line1 ==
  /\ pc = 0
  /\ Len(heap) < MaxLoads
  /\ heap' = Append(heap, EmptyObject)
  /\ implementors' = Len(heap) + 1
  /\ pc' = NextLine(FirstLine)
  /\ written' = written \cup DeclaredGlobals
  /\ UNCHANGED <<hook, pending, calls, log>>

\* lines 2-10: implementors["<crate>"] = [...];
AssignLine ==
  /\ pc \in 2 .. 10
  /\ heap' = [heap EXCEPT ![implementors] =
                ObjSet(@, StatementAt(pc).key, StatementAt(pc).value)]
  /\ pc' = NextLine(pc)
  /\ implementors' = Scope(pc)
  /\ UNCHANGED <<hook, pending, calls, written, log>>

\* line 11: the registration branch and the end of the function wrapper
Line11 ==
  /\ pc = LastLine
  /\ LET r == RegistrationBranch(hook, pending, calls, Ref(implementors))
     IN  /\ pending' = r.pending
         /\ calls' = r.calls
         /\ written' = written \cup r.wrote
         /\ log' = Append(log, [hook |-> hook, before |-> pending, after |-> r.pending,
                                callsBefore |-> calls, callsAfter |-> r.calls,
                                obj |-> Ref(implementors),
                                content |-> heap[implementors],
                                raised |-> r.raised])
  /\ pc' = NextLine(pc)
  /\ implementors' = Scope(pc)
  /\ UNCHANGED <<hook, heap>>

\* the page installs, replaces or removes the hook between scripts
SetHook ==
  /\ pc = 0
  /\ \E v \in HookValues : v # hook /\ hook' = v
  /\ UNCHANGED <<pending, calls, heap, implementors, pc, written, log>>

\* a consumer polls the slot and takes what it holds
ConsumerTake ==
  /\ pc = 0
  /\ pending # Undefined
  /\ pending' = Undefined
  /\ UNCHANGED <<hook, calls, heap, implementors, pc, written, log>>

Next == Line1 \/ AssignLine \/ Line11 \/ SetHook \/ ConsumerTake

Spec == Init /\ [][Next]_vars

\* ------------------------------------------------------------------------
\* what a finished load did, read off its log entry

\* the hook received exactly one more call, with the mapping as only argument
CalledOnce(e) == e.callsAfter = Append(e.callsBefore, <<e.obj>>)

NotCalled(e) == e.callsAfter = e.callsBefore

CallbackRoute(e) == CalledOnce(e) /\ e.after = e.before

FallbackRoute(e) == NotCalled(e) /\ e.after = e.obj

NeitherRoute(e) == NotCalled(e) /\ e.after = e.before

Entries == {log[i] : i \in DOMAIN log}

RECURSIVE SumSeq(_)
SumSeq(s) == IF s = << >> THEN 0 ELSE Head(s) + SumSeq(Tail(s))

RecordCounts(m) == [i \in DOMAIN m |-> Len(m[i].value)]


\* ------------------------------------------------------------------------
\* C1 (as stated): whenever window.register_implementors exists at load time
\* the load takes the callback route (one call with the mapping, pending not
\* written), and otherwise it takes the fallback route (pending set, no call).
C1_AsStated ==
  \A e \in Entries :
    IF e.hook # "undefined" THEN CallbackRoute(e) ELSE FallbackRoute(e)

\* C1 (amended): the test is truthiness and the call needs a callable: a
\* truthy callable hook gets exactly one call with the mapping and pending is
\* not written; a falsy hook (absent, or present with a falsy value) makes the
\* load set pending to the mapping with no call; a truthy value that is not
\* callable gets neither: the call expression raises and pending is untouched.
C1_TwoOutcomes ==
  \A e \in Entries :
    /\ (Truthy(e.hook) /\ Callable(e.hook)) => (CallbackRoute(e) /\ ~FallbackRoute(e))
    /\ ~Truthy(e.hook) => (FallbackRoute(e) /\ ~CallbackRoute(e))
    /\ (Truthy(e.hook) /\ ~Callable(e.hook)) => (NeitherRoute(e) /\ e.raised)

C1_Witness ==
  \E e1, e2 \in Entries :
    /\ e1.hook = "function" /\ CallbackRoute(e1)
    /\ e2.hook = "falsy" /\ FallbackRoute(e2)

\* C2 (as stated): every record of every mapping has exactly the two fields
\* text (markup) and types (type paths), and no other field.
C2_AsStated ==
  \A id \in DOMAIN heap : \A i \in DOMAIN heap[id] : \A j \in DOMAIN heap[id][i].value :
    DOMAIN heap[id][i].value[j] = {"text", "types"}

\* C2 (amended): every record of every mapping has exactly three fields: the
\* markup string text, the boolean synthetic, and the list types of
\* type-path strings.
C2_RecordShape ==
  \A id \in DOMAIN heap : \A i \in DOMAIN heap[id] : \A j \in DOMAIN heap[id][i].value :
    LET r == heap[id][i].value[j]
    IN  /\ DOMAIN r = {"text", "synthetic", "types"}
        /\ r.text \in STRING
        /\ r.synthetic \in BOOLEAN
        /\ r.types \in Seq(STRING)

C2_Witness ==
  \E id \in DOMAIN heap : Len(heap[id]) = 9 /\ pc = 0 /\ Len(log) >= 1

\* C3 (as stated): no load raises, whatever the two globals hold, and every
\* load delivers the mapping by one of the two routes.
C3_AsStated ==
  \A e \in Entries : ~e.raised /\ (CallbackRoute(e) \/ FallbackRoute(e))

\* C3 (amended): a load completes without raising and delivers the mapping by
\* exactly one route when the hook is falsy (absent included) or is a function
\* that returns normally, whatever pending holds; a load raises exactly when
\* the hook is truthy but not callable (nothing is delivered) or is a function
\* that itself throws (after it received the mapping).
C3_RaisesOnlyOnBadHook ==
  \A e \in Entries :
    /\ e.raised <=> ((Truthy(e.hook) /\ ~Callable(e.hook)) \/ Throws(e.hook))
    /\ (~Truthy(e.hook) \/ Callable(e.hook)) => (CallbackRoute(e) # FallbackRoute(e))
    /\ (Truthy(e.hook) /\ ~Callable(e.hook)) => NeitherRoute(e)

C3_Witness ==
  \E e1, e2 \in Entries :
    /\ e1.hook = "object" /\ e1.raised
    /\ e2.hook = "undefined" /\ e2.before = Foreign /\ ~e2.raised

\* C4: the script assigns no property of window other than
\* pending_implementors, never reassigns the hook, leaves its local out of
\* scope when it ends, and a step that calls the hook leaves pending as it was.
C4_Frame ==
  [][ /\ (pc # 0 \/ pc' # 0) => hook' = hook
      /\ written' \subseteq {"pending_implementors"}
      /\ pc' = 0 => implementors' = 0
      /\ calls' # calls => pending' = pending ]_vars

C4_Witness ==
  \E e \in Entries :
    /\ CallbackRoute(e) /\ e.before = Foreign
    /\ pending = Foreign /\ written = {}

\* C5: when the mapping is handed over it holds all nine keys with the record
\* lists written in the file, and the object is the same ever after.
C5_BuiltThenFrozen ==
  \A e \in Entries :
    /\ Len(e.content) = 9
    /\ \A i \in 1 .. 9 :
         /\ e.content[i].key = Assignments[i].key
         /\ e.content[i].value = Assignments[i].value
    /\ heap[e.obj.id] = e.content

C5_Witness ==
  \E e1, e2 \in Entries :
    /\ CalledOnce(e1) /\ FallbackRoute(e2) /\ e1.obj # e2.obj
    /\ heap[e1.obj.id] = e1.content

\* C6: the slot changes only at line 11 of a load or by a consumer's take,
\* the hook is called only at line 11 of a load, installing the hook neither
\* calls it nor touches the slot, and a mapping stored by the fallback route is
\* never passed to the hook by the script.
C6_StashStays ==
  [][ /\ pending' # pending =>
           (pc = LastLine \/ (pc = 0 /\ pc' = 0 /\ pending' = Undefined))
      /\ calls' # calls => pc = LastLine
      /\ hook' # hook => (calls' = calls /\ pending' = pending)
      /\ \A i \in DOMAIN log' : FallbackRoute(log'[i]) =>
           \A k \in DOMAIN calls' : calls'[k] # <<log'[i].obj>> ]_vars

C6_Witness ==
  \E e \in Entries :
    /\ e.hook = "undefined" /\ FallbackRoute(e)
    /\ pending = e.obj /\ hook = "function" /\ pc = 0 /\ calls = << >>

\* C7: a handed-over mapping has the keys bytes, hashbrown, http, indexmap,
\* openssl, slab, syn, tinyvec, url in that order, with 6, 1, 1, 3, 1, 1, 1, 3
\* and 4 records (21 in all), each list non-empty and in file order.
C7_KeysAndCounts ==
  \A e \in Entries :
    /\ ObjKeys(e.content) = <<"bytes", "hashbrown", "http", "indexmap", "openssl",
                              "slab", "syn", "tinyvec", "url">>
    /\ RecordCounts(e.content) = <<6, 1, 1, 3, 1, 1, 1, 3, 4>>
    /\ SumSeq(RecordCounts(e.content)) = 21
    /\ \A i \in DOMAIN e.content : e.content[i].value # << >>
    /\ [j \in 1 .. 3 |-> ObjGet(e.content, "indexmap")[j].types[1]] =
         <<"indexmap::map::IndexMap", "indexmap::map::IndexMap", "indexmap::set::IndexSet">>
    /\ [j \in 1 .. 3 |-> ObjGet(e.content, "tinyvec")[j].types[1]] =
         <<"tinyvec::arrayvec::ArrayVec", "tinyvec::slicevec::SliceVec",
           "tinyvec::tinyvec::TinyVec">>

C7_Witness ==
  \E e \in Entries : Len(e.content) = 9 /\ e.hook = "throwing_function"

\* C8: in every mapping, every record has exactly one type path, the path
\* starts with the crate key followed by "::", and synthetic is false.
C8_PathsUnderKey ==
  \A id \in DOMAIN heap : \A i \in DOMAIN heap[id] : \A j \in DOMAIN heap[id][i].value :
    LET k == heap[id][i].key
        r == heap[id][i].value[j]
    IN  /\ Len(r.types) = 1
        /\ Len(r.types[1]) > Len(k) + 2
        /\ SubSeq(r.types[1], 1, Len(k) + 2) = k \o "::"
        /\ r.synthetic = FALSE

C8_Witness ==
  \E id \in DOMAIN heap : Len(heap[id]) = 9 /\ ObjHas(heap[id], "url") /\ pc = LastLine

\* C9: of two consecutive loads that both find the hook falsy, the second
\* leaves pending holding its own mapping, distinct from and equal in content
\* to the first load's; of two consecutive loads that both find a function,
\* each makes its own call, two calls in all, with mappings of equal content.
C9_TwoLoads ==
  \A i \in DOMAIN log : (i + 1) \in DOMAIN log =>
    LET a == log[i]
        b == log[i + 1]
    IN  /\ (~Truthy(a.hook) /\ ~Truthy(b.hook)) =>
             /\ a.after = a.obj /\ b.after = b.obj /\ a.obj # b.obj
             /\ heap[b.after.id] = heap[a.after.id]
             /\ Len(heap[b.after.id]) = 9
        /\ (Callable(a.hook) /\ Callable(b.hook)) =>
             /\ b.callsAfter = Append(Append(a.callsBefore, <<a.obj>>), <<b.obj>>)
             /\ a.obj # b.obj
             /\ heap[b.obj.id] = heap[a.obj.id]

C9_Witness ==
  /\ Len(log) >= 2 /\ pc = 0
  /\ log[1].hook = "undefined" /\ log[2].hook = "undefined"
  /\ pending = log[2].obj

C9_WitnessCalls ==
  /\ Len(log) >= 2
  /\ log[1].hook = "function" /\ log[2].hook = "function" /\ Len(calls) = 2

\* C10: the route of a load is decided by the hook as line 11 finds it: with
\* no hook installed the step stores the mapping and calls nothing, with a
\* function installed it calls the function and stores nothing, whatever
\* happened before; no step does both, and in neither case is the mapping lost.
C10_RouteByHookAtLoad ==
  [][ pc = LastLine =>
        LET m == Ref(implementors)
            stored == pending' = m
            called == calls' = Append(calls, <<m>>)
        IN  /\ hook = "undefined" => (stored /\ calls' = calls)
            /\ hook = "function" => (called /\ pending' = pending)
            /\ ~(stored /\ calls' # calls)
            /\ hook \in {"undefined", "function"} => (stored \/ called) ]_vars

C10_Witness ==
  /\ Len(log) >= 2
  /\ log[1].hook = "undefined" /\ FallbackRoute(log[1])
  /\ log[2].hook = "function" /\ CallbackRoute(log[2])
  /\ pending = log[1].obj

====
